---- MODULE Spec2Model ----
(***************************************************************************)
(* Capture orchestration core of platformAudioScreenshotService            *)
(* (src/unnamed/part_002): the Idle/Capturing state machine, the           *)
(* supervised SystemAudioDump subprocess and the chunking of its stdout.   *)
(*                                                                         *)
(* Granularity.  Node runs one callback at a time.  An async method runs   *)
(* synchronously up to an await whose promise is settled by a later I/O    *)
(* event; the service has two such awaits, both in startAudioCapture on    *)
(* macOS: desktopCapturer.getSources (line 76) and the close/error/timeout *)
(* of pkill (lines 410-427).  Every other await (lines 198-202, 232-236)   *)
(* is on an async function without an inner await and resumes in the same  *)
(* microtask drain, before any other I/O callback or IPC request runs.     *)
(* Each action below is therefore one such uninterrupted run.              *)
(*                                                                         *)
(* Units.  chunkDuration is kept in milliseconds (0.1 s is 100) and the    *)
(* closure constant CHUNK_SIZE in 1/8000 byte (see Scale), so that the     *)
(* source's fractional arithmetic stays exact.                             *)
(***************************************************************************)
EXTENDS Integers, Sequences, FiniteSets, TLC

\* ------------------------------------------------------------------ bounds
\* Subprocess objects spawn() may hand out in one run of the model.
MaxProcs == 2
\* Length the chunk list may reach.
MaxChunks == 2
\* Stereo frames in a buffer handed to convertStereoToMono by itself.
MaxFrames == 2
\* Data events delivered to one stdout handler when it is looked at by itself.
MaxFeeds == 3

\* Concurrent IPC requests for start-capture (lines 551-553).
Callers == {"c1", "c2"}
Pids == 1..MaxProcs
\* Sizes of the stdout 'data' buffers delivered to the handler of line 332.
DataSizes == {4800, 9600}
\* The sizes the chunker is fed under ChunkerNext: a short buffer, and 10,000
\* bytes at once or in two halves.
ChunkerDataSizes == {400, 5000, 10000}

\* ------------------------------------------------------------- constants
Platforms == {"macos", "windows", "linux"}

AUDIO_CONFIGS(p) ==
  [sampleRate |-> 24000,
   channels |-> 1,
   bitsPerSample |-> 16,
   chunkDuration |-> 100,
   enableEchoCancellation |-> (p # "linux"),
   echoCancellationSensitivity |-> (IF p = "linux" THEN "low" ELSE "medium"),
   bufferSize |-> 4096]

\* The argument of `new platformAudioScreenshotService()`: no partial.
NoPartial == [f \in {} |-> 0]

\* Partial<AudioCaptureConfig> values handed to the constructor and to
\* updateConfig.
Partials ==
  {[chunkDuration |-> 50, sampleRate |-> 48000, channels |-> 2]}

\* The partials of the configuration calls on their own (CallsNext): the
\* one of the constructor test, one more field, and a value that the type
\* `number` and the IPC handler of lines 571-574 both let through.
ConfigPartials ==
  {[sampleRate |-> 48000, chunkDuration |-> 50],
   [channels |-> 2],
   [chunkDuration |-> 0]}

\* The partials the chunker is looked at under (ChunkerInit): none, stereo,
\* and a rate and duration whose product is no whole number of frames
\* (22050 Hz * 0.125 s = 2756.25 frames).
ChunkerPartials ==
  {NoPartial,
   [channels |-> 2],
   [sampleRate |-> 22050, chunkDuration |-> 125]}

\* { ...config, ...newConfig }
Merge(cfg, partial) ==
  [f \in (DOMAIN cfg) \cup (DOMAIN partial) |->
     IF f \in DOMAIN partial THEN partial[f] ELSE cfg[f]]

\* ----------------------------------------------------------------- errors
NoError == [name |-> "none", code |-> "none", message |-> <<>>, platform |-> "none"]

PermissionError(msg, plat) ==
  [name |-> "PermissionError", code |-> "PERMISSION_DENIED", message |-> msg, platform |-> plat]

AudioDeviceError(msg, plat) ==
  [name |-> "AudioDeviceError", code |-> "AUDIO_DEVICE_ERROR", message |-> msg, platform |-> plat]

SystemAudioError(msg, plat) ==
  [name |-> "SystemAudioError", code |-> "SYSTEM_AUDIO_ERROR", message |-> msg, platform |-> plat]

\* A plain Error raised by a collaborator (here: spawn() throwing).
PlainError(msg) ==
  [name |-> "Error", code |-> "none", message |-> msg, platform |-> "none"]

\* error instanceof PlatformAudioError
IsPlatformAudioError(e) ==
  e.name \in {"PlatformAudioError", "PermissionError", "AudioDeviceError", "SystemAudioError"}

NeedsSetupMessage ==
  <<"System permissions need to be configured. Please check microphone and screen recording permissions.">>

\* -------------------------------------------------------------- the state
VARIABLES
  platform,         \* this.platform, fixed by the constructor
  isCapturing,      \* this.isCapturing
  systemAudioProc,  \* this.systemAudioProc: a pid of Pids, or 0 for null
  audioChunks,      \* this.audioChunks
  config,           \* this.config
  procs,            \* the process host: every object spawn() has returned
  call,             \* the startAudioCapture calls suspended at an await
  ret,              \* what the last step handed out: the result a call returned,
                    \* or the chunks a data event pushed; NoRet otherwise
  startedOk         \* history: a start has returned success, no stop called since

vars == <<platform, isCapturing, systemAudioProc, audioChunks, config, procs,
          call, ret, startedOk>>

\* The service's own fields, without the history variables.
service == <<isCapturing, systemAudioProc, audioChunks, config>>

\* ------------------------------------------------------------- permissions
\* What systemPreferences.getMediaAccessStatus('microphone') can do.
MicStatuses == {"granted", "denied", "not-determined", "restricted"}
MicOutcomes == MicStatuses \cup {"throws"}
\* The answers the start calls of the model are given.
StartMicOutcomes == {"granted", "denied", "throws"}
\* What desktopCapturer.getSources can do: resolve or reject.
ScreenOutcomes == {"resolves", "rejects"}

\* What the two probes raise when they fail: getMediaAccessStatus throws,
\* desktopCapturer.getSources rejects (the test rejects it with this message).
MicProbeError == PlainError(<<"getMediaAccessStatus failed">>)
ScreenProbeError == PlainError(<<"Permission denied">>)

\* The collaborators checkSystemPermissions asks (lines 68-98).
PermissionQueries(plat, mic) ==
  IF plat = "macos"
  THEN IF mic = "throws"
       THEN {"getMediaAccessStatus"}
       ELSE {"getMediaAccessStatus", "getSources"}
  ELSE {}

\* A faulty variant of CheckSystemPermissions: every platform is gated.
CheckSystemPermissionsAllGated(plat, mic, screen) ==
  IF mic = "throws"
  THEN [microphone |-> "unknown", screen |-> "unknown", needsSetup |-> TRUE]
  ELSE IF screen = "resolves"
       THEN [microphone |-> mic, screen |-> "granted", needsSetup |-> FALSE]
       ELSE [microphone |-> mic, screen |-> "denied", needsSetup |-> TRUE]

\* A faulty variant of CheckSystemPermissions: a failed enumeration does not
\* ask for setup.
CheckSystemPermissionsForgetsSetup(plat, mic, screen) ==
  IF plat = "macos"
  THEN IF mic = "throws"
       THEN [microphone |-> "unknown", screen |-> "unknown", needsSetup |-> TRUE]
       ELSE IF screen = "resolves"
            THEN [microphone |-> mic, screen |-> "granted", needsSetup |-> FALSE]
            ELSE [microphone |-> mic, screen |-> "denied", needsSetup |-> FALSE]
  ELSE [microphone |-> "granted", screen |-> "granted", needsSetup |-> FALSE]

\* A faulty variant of CheckSystemPermissions: the enumeration is tried even
\* after the microphone query has thrown.
CheckSystemPermissionsProbesOn(plat, mic, screen) ==
  IF plat = "macos"
  THEN IF screen = "resolves"
       THEN [microphone |-> IF mic = "throws" THEN "unknown" ELSE mic,
             screen |-> "granted", needsSetup |-> (mic = "throws")]
       ELSE [microphone |-> IF mic = "throws" THEN "unknown" ELSE mic,
             screen |-> "denied", needsSetup |-> TRUE]
  ELSE [microphone |-> "granted", screen |-> "granted", needsSetup |-> FALSE]

\* A faulty variant of CheckSystemPermissions: the status carries the message
\* of the exception caught.
CheckSystemPermissionsAttachesError(plat, mic, screen) ==
  IF plat = "macos"
  THEN IF mic = "throws"
       THEN [microphone |-> "unknown", screen |-> "unknown", needsSetup |-> TRUE,
             error |-> MicProbeError.message]
       ELSE IF screen = "resolves"
            THEN [microphone |-> mic, screen |-> "granted", needsSetup |-> FALSE]
            ELSE [microphone |-> mic, screen |-> "denied", needsSetup |-> TRUE,
                  error |-> ScreenProbeError.message]
  ELSE [microphone |-> "granted", screen |-> "granted", needsSetup |-> FALSE]

\* A faulty variant of CheckSystemPermissions: a microphone that is not
\* granted asks for setup.
CheckSystemPermissionsMicGates(plat, mic, screen) ==
  IF plat = "macos"
  THEN IF mic = "throws"
       THEN [microphone |-> "unknown", screen |-> "unknown", needsSetup |-> TRUE]
       ELSE IF screen = "resolves"
            THEN [microphone |-> mic, screen |-> "granted",
                  needsSetup |-> (mic # "granted")]
            ELSE [microphone |-> mic, screen |-> "denied", needsSetup |-> TRUE]
  ELSE [microphone |-> "granted", screen |-> "granted", needsSetup |-> FALSE]

\* checkSystemPermissions, as a function of what the OS answers.
CheckSystemPermissions(plat, mic, screen) ==
  IF plat = "macos"
  THEN IF mic = "throws"
       THEN [microphone |-> "unknown", screen |-> "unknown", needsSetup |-> TRUE]
       ELSE IF screen = "resolves"
            THEN [microphone |-> mic, screen |-> "granted", needsSetup |-> FALSE]
            ELSE [microphone |-> mic, screen |-> "denied", needsSetup |-> TRUE]
  ELSE [microphone |-> "granted", screen |-> "granted", needsSetup |-> FALSE]

\* ---------------------------------------------------------------- chunking
\* CHUNK_SIZE is held in units of 1/Scale byte: bitsPerSample / 8 and a
\* chunkDuration in milliseconds.
Scale == 8 * 1000

\* A faulty variant of Closure: the chunk size leaves the channel count out.
ClosureIgnoresChannels(cfg) ==
  [CHUNK_DURATION |-> cfg.chunkDuration,
   SAMPLE_RATE |-> cfg.sampleRate,
   CHANNELS |-> cfg.channels,
   CHUNK_SIZE |-> cfg.sampleRate * cfg.bitsPerSample * cfg.chunkDuration]

\* Lines 324-328: the constants the stdout handler closes over.
Closure(cfg) ==
  [CHUNK_DURATION |-> cfg.chunkDuration,
   SAMPLE_RATE |-> cfg.sampleRate,
   CHANNELS |-> cfg.channels,
   CHUNK_SIZE |-> cfg.sampleRate * cfg.bitsPerSample * cfg.channels * cfg.chunkDuration]

\* Buffer.slice(0, CHUNK_SIZE): the bytes of one window (slice truncates).
WindowBytes(cl) == cl.CHUNK_SIZE \div Scale

\* Byte length of convertStereoToMono's result for a buffer of n bytes.
ConvertStereoToMonoLength(n) == 2 * ((n \div 2) \div 2)

\* ------------------------------------------------------------- downmix
\* Element k of an Int16Array over bytes lo, hi (the hosts of Electron are
\* little-endian): two's complement.
Int16Of(lo, hi) ==
  LET u == lo + 256 * hi
  IN  IF u >= 32768 THEN u - 65536 ELSE u

\* A store into an Int16Array wraps to 16 bits.
ToInt16(v) == ((v + 32768) % 65536) - 32768

\* The two bytes of an Int16Array element, low byte first.
BytesOfInt16(v) ==
  LET u == v % 65536
  IN  <<u % 256, u \div 256>>

\* Math.round(sum / 2) for an integer sum: halves round towards +Infinity.
MathRoundHalf(sum) == (sum + 1) \div 2

\* A faulty variant of ConvertStereoToMono: the left channel alone.
ConvertStereoToMonoLeftOnly(buffer) ==
  LET int16Length == Len(buffer) \div 2
      monoLength == int16Length \div 2
      int16Array == [k \in 0..(int16Length - 1) |->
                       Int16Of(buffer[2 * k + 1], buffer[2 * k + 2])]
      monoArray == [i \in 0..(monoLength - 1) |-> ToInt16(int16Array[i * 2])]
  IN  [j \in 1..(2 * monoLength) |-> BytesOfInt16(monoArray[(j - 1) \div 2])[((j - 1) % 2) + 1]]

\* A faulty variant of ConvertStereoToMono: the sum of the two samples is
\* itself held in 16 bits.
ConvertStereoToMonoNarrowSum(buffer) ==
  LET int16Length == Len(buffer) \div 2
      monoLength == int16Length \div 2
      int16Array == [k \in 0..(int16Length - 1) |->
                       Int16Of(buffer[2 * k + 1], buffer[2 * k + 2])]
      monoArray == [i \in 0..(monoLength - 1) |->
                      ToInt16(MathRoundHalf(ToInt16(int16Array[i * 2] + int16Array[i * 2 + 1])))]
  IN  [j \in 1..(2 * monoLength) |-> BytesOfInt16(monoArray[(j - 1) \div 2])[((j - 1) % 2) + 1]]

\* convertStereoToMono (lines 521-532) on a buffer of bytes: the bytes of the
\* mono buffer.  The lengths int16Array.length and monoArray.length are
\* truncated as the typed-array constructors truncate them.
ConvertStereoToMono(buffer) ==
  LET int16Length == Len(buffer) \div 2
      monoLength == int16Length \div 2
      int16Array == [k \in 0..(int16Length - 1) |->
                       Int16Of(buffer[2 * k + 1], buffer[2 * k + 2])]
      monoArray == [i \in 0..(monoLength - 1) |->
                      ToInt16(MathRoundHalf(int16Array[i * 2] + int16Array[i * 2 + 1]))]
  IN  [j \in 1..(2 * monoLength) |-> BytesOfInt16(monoArray[(j - 1) \div 2])[((j - 1) % 2) + 1]]

\* The stereo frames <<left, right>> the buffers of the model are made of:
\* the two of the test, a negative half, and the two ends of the range.
Frames ==
  {<<100, 200>>, <<150, 250>>, <<-3, 0>>, <<-32768, -32768>>, <<32767, 32767>>}

\* Buffer.writeInt16LE of the samples of a sequence of frames.
RECURSIVE StereoBytes(_)
StereoBytes(frames) ==
  IF frames = <<>>
  THEN <<>>
  ELSE BytesOfInt16(Head(frames)[1]) \o BytesOfInt16(Head(frames)[2])
         \o StereoBytes(Tail(frames))

\* The interleaved 16-bit stereo buffers of up to MaxFrames frames.
StereoBuffers ==
  {StereoBytes(fs) : fs \in UNION {[1..n -> Frames] : n \in 0..MaxFrames}}

\* The loop of lines 335-350 on an accumulator of len bytes: how many windows
\* it slices off.
RECURSIVE Windows(_, _)
Windows(len, cl) ==
  IF len * Scale >= cl.CHUNK_SIZE
  THEN 1 + Windows(len - WindowBytes(cl), cl)
  ELSE 0

\* The AudioChunk pushed at lines 342-349 by the handler of subprocess p.
\* duration is CHUNK_DURATION * 1000, which is the chunkDuration of this
\* module (milliseconds); bytes is the length of the payload before base64,
\* window the length of the slice it was made from; src is a history field:
\* the subprocess.
Chunk(p, cl) ==
  [source |-> "system",
   mimeType |-> "audio/pcm;rate=24000",
   duration |-> cl.CHUNK_DURATION,
   sampleRate |-> cl.SAMPLE_RATE,
   bytes |-> IF cl.CHANNELS = 2
             THEN ConvertStereoToMonoLength(WindowBytes(cl))
             ELSE WindowBytes(cl),
   window |-> WindowBytes(cl),
   src |-> p]

\* The stdout handler by itself.  A buffer is held as the run of stream
\* offsets of its bytes: from, the offset of its first byte, and len.
\* `let audioBuffer = Buffer.alloc(0)` (line 330), nothing sliced yet.
NoFeed == [audioBuffer |-> [from |-> 0, len |-> 0], windows |-> <<>>]

\* One run of the handler (lines 333-338) on the n bytes that follow on the
\* stream: Buffer.concat appends them, and each turn of the loop slices the
\* first WindowBytes bytes off (slice truncates a fractional CHUNK_SIZE, at
\* both line 336 and line 337).  windows lists every slice made so far.
FeedData(st, n, cl) ==
  LET joined == [from |-> st.audioBuffer.from, len |-> st.audioBuffer.len + n]
      w == Windows(joined.len, cl)
  IN  [audioBuffer |-> [from |-> joined.from + w * WindowBytes(cl),
                        len |-> joined.len - w * WindowBytes(cl)],
       windows |-> st.windows \o
                   [i \in 1..w |-> [from |-> joined.from + (i - 1) * WindowBytes(cl),
                                    len |-> WindowBytes(cl)]]]

\* The handler run on each buffer of sizes in turn, within one session.
RECURSIVE FeedAll(_, _)
FeedAll(sizes, cl) ==
  IF sizes = <<>>
  THEN NoFeed
  ELSE FeedData(FeedAll(SubSeq(sizes, 1, Len(sizes) - 1), cl), sizes[Len(sizes)], cl)

\* The sizes of the buffers of a session looked at by itself, and the
\* sessions of up to MaxFeeds data events.
FeedSizes == {400, 5000, 5512, 5513}
FeedSequences == UNION {[1..k -> FeedSizes] : k \in 0..MaxFeeds}

\* ------------------------------------------------------------ process host
\* An object spawn() has not handed out yet.
Unborn ==
  [state |-> "unborn", signalled |-> FALSE, kills |-> 0, handlers |-> FALSE,
   audioBuffer |-> 0,
   closure |-> Closure(AUDIO_CONFIGS("macos")),
   startConfig |-> AUDIO_CONFIGS("macos")]

Alive == {p \in Pids : procs[p].state = "alive"}
Spawned == {p \in Pids : procs[p].state # "unborn"}
InFlight == {c \in Callers : call[c].at # "idle"}

\* The pid spawn() hands out next.
NextPid == Cardinality(Spawned) + 1

\* app.isPackaged decides the resolved path (lines 299-301).
SystemAudioPath(isPackaged) ==
  IF isPackaged
  THEN "resources/app.asar.unpacked/assets/SystemAudioDump"
  ELSE "dirname/../../assets/SystemAudioDump"

\* ------------------------------------------------------------------ returns
\* A start call: where it is suspended, the microphone status it read at
\* line 71, and two history fields: solo (no other start or stop call has
\* overlapped it) and retry (the call before it was rejected for a missing
\* binary).
NoCall == [at |-> "idle", mic |-> "none", solo |-> TRUE, retry |-> FALSE]

\* arg and out are the argument and the value returned of the calls that are
\* functions of their argument (getConfig, checkSystemPermissions,
\* convertStereoToMono).
NoRet ==
  [op |-> "none", ok |-> FALSE, noop |-> FALSE, hasChunks |-> FALSE, chunks |-> <<>>,
   err |-> NoError, thrown |-> NoError, did |-> {}, killed |-> 0, path |-> "none",
   solo |-> TRUE, retry |-> FALSE, arg |-> <<>>, out |-> <<>>]

\* { success: true } of startAudioCapture (lines 180 and 206).  did lists
\* the collaborators the call has used, in history.
StartOk(me, noop, did) ==
  [NoRet EXCEPT !.op = "start", !.ok = TRUE, !.noop = noop, !.did = did,
                !.solo = me.solo, !.retry = me.retry]

\* The rejection startAudioCapture's promise settles with (lines 211-218):
\* err; thrown is the exception the catch block received.
StartRejected(me, e, thrown, did, path) ==
  [NoRet EXCEPT !.op = "start", !.err = e, !.thrown = thrown, !.did = did,
                !.path = path, !.solo = me.solo, !.retry = me.retry]

BinaryNotFound(path) == <<"SystemAudioDump binary not found at ", path>>

Init ==
  /\ platform \in Platforms
  /\ isCapturing = FALSE
  /\ systemAudioProc = 0
  /\ audioChunks = <<>>
  /\ \E p0 \in Partials \cup {NoPartial} : config = Merge(AUDIO_CONFIGS(platform), p0)
  /\ procs = [p \in Pids |-> Unborn]
  /\ call = [c \in Callers |-> NoCall]
  /\ ret = NoRet
  /\ startedOk = FALSE

\* --------------------------------------------------- startAudioCapture
\* A call as it enters startAudioCapture.
Entering(mic) ==
  [at |-> "perm", mic |-> mic, solo |-> (InFlight = {}),
   retry |-> (ret.op = "start" /\ ret.path # "none")]

\* A start call suspends at its first real await: every call already
\* suspended now overlaps another one.
Enter(c, mic) ==
  [d \in Callers |->
     IF d = c THEN Entering(mic)
     ELSE IF call[d].at # "idle" THEN [call[d] EXCEPT !.solo = FALSE]
     ELSE call[d]]

\* A faulty variant of StartThrows: the catch block does not reset
\* isCapturing.
StartThrowsKeepsCapturing(c, me, e, did, path) ==
  /\ isCapturing' = isCapturing
  /\ ret' = StartRejected(me,
                          IF IsPlatformAudioError(e)
                          THEN e
                          ELSE AudioDeviceError(e.message, platform),
                          e, did, path)
  /\ call' = [call EXCEPT ![c] = NoCall]

\* A faulty variant of StartThrows: the catch block wraps every exception.
StartThrowsWrapsAll(c, me, e, did, path) ==
  /\ isCapturing' = FALSE
  /\ ret' = StartRejected(me, AudioDeviceError(e.message, platform), e, did, path)
  /\ call' = [call EXCEPT ![c] = NoCall]

\* The catch block of startAudioCapture (lines 207-219) on exception e.
StartThrows(c, me, e, did, path) ==
  /\ isCapturing' = FALSE
  /\ ret' = StartRejected(me,
                          IF IsPlatformAudioError(e)
                          THEN e
                          ELSE AudioDeviceError(e.message, platform),
                          e, did, path)
  /\ call' = [call EXCEPT ![c] = NoCall]

\* A faulty variant of Permitted: the session state of lines 194-195 is set
\* up before the permission check is looked at.
PermittedResetsFirst(c, me, status) ==
  IF status.needsSetup
  THEN /\ StartThrows(c, me, PermissionError(NeedsSetupMessage, platform),
                      {"permissions"}, "none")
       /\ audioChunks' = <<>>
       /\ UNCHANGED <<platform, systemAudioProc, config, procs, startedOk>>
  ELSE /\ isCapturing' = TRUE
       /\ audioChunks' = <<>>
       /\ IF platform = "macos"
          THEN /\ call' = [call EXCEPT ![c] = [me EXCEPT !.at = "kill"]]
               /\ ret' = NoRet
               /\ startedOk' = startedOk
          ELSE /\ call' = [call EXCEPT ![c] = NoCall]
               /\ ret' = StartOk(me, FALSE, {"permissions"})
               /\ startedOk' = TRUE
       /\ UNCHANGED <<platform, systemAudioProc, config, procs>>

\* A faulty variant of Permitted: needsSetup is not looked at.
PermittedIgnoresSetup(c, me, status) ==
  /\ isCapturing' = TRUE
  /\ audioChunks' = <<>>
  /\ IF platform = "macos"
     THEN /\ call' = [call EXCEPT ![c] = [me EXCEPT !.at = "kill"]]
          /\ ret' = NoRet
          /\ startedOk' = startedOk
     ELSE /\ call' = [call EXCEPT ![c] = NoCall]
          /\ ret' = StartOk(me, FALSE, {"permissions"})
          /\ startedOk' = TRUE
  /\ UNCHANGED <<platform, systemAudioProc, config, procs>>

\* A faulty variant of Permitted: every platform takes the branch of
\* line 198.
PermittedAlwaysSupervised(c, me, status) ==
  IF status.needsSetup
  THEN /\ StartThrows(c, me, PermissionError(NeedsSetupMessage, platform),
                      {"permissions"}, "none")
       /\ UNCHANGED <<platform, systemAudioProc, audioChunks, config, procs, startedOk>>
  ELSE /\ isCapturing' = TRUE
       /\ audioChunks' = <<>>
       /\ call' = [call EXCEPT ![c] = [me EXCEPT !.at = "kill"]]
       /\ ret' = NoRet
       /\ startedOk' = startedOk
       /\ UNCHANGED <<platform, systemAudioProc, config, procs>>

\* Lines 187-206, once checkSystemPermissions has answered with status.
Permitted(c, me, status) ==
  IF status.needsSetup
  THEN /\ StartThrows(c, me, PermissionError(NeedsSetupMessage, platform),
                      {"permissions"}, "none")
       /\ UNCHANGED <<platform, systemAudioProc, audioChunks, config, procs, startedOk>>
  ELSE /\ isCapturing' = TRUE
       /\ audioChunks' = <<>>
       /\ IF platform = "macos"
          THEN /\ call' = [call EXCEPT ![c] = [me EXCEPT !.at = "kill"]]
               /\ ret' = NoRet
               /\ startedOk' = startedOk
          ELSE /\ call' = [call EXCEPT ![c] = NoCall]
               /\ ret' = StartOk(me, FALSE, {"permissions"})
               /\ startedOk' = TRUE
       /\ UNCHANGED <<platform, systemAudioProc, config, procs>>

\* startAudioCapture from its entry to its first real await (lines 176-186
\* and, inside checkSystemPermissions, lines 68-79 or 90-107).
StartAudioCapture(c, mics) ==
  /\ call[c].at = "idle"
  /\ IF isCapturing
     THEN /\ ret' = StartOk(Entering("none"), TRUE, {})
          /\ startedOk' = TRUE
          /\ UNCHANGED <<platform, service, procs, call>>
     ELSE IF platform = "macos"
     THEN /\ Cardinality(Spawned) + Cardinality(InFlight) < MaxProcs
          /\ \E mic \in mics :
               IF mic = "throws"
               THEN Permitted(c, Entering(mic),
                              CheckSystemPermissions(platform, mic, "unasked"))
               ELSE /\ call' = Enter(c, mic)
                    /\ ret' = NoRet
                    /\ UNCHANGED <<platform, service, procs, startedOk>>
     ELSE Permitted(c, Entering("unasked"),
                    CheckSystemPermissions(platform, "unasked", "unasked"))

\* startAudioCapture is called, the microphone query answering with one of
\* StartMicOutcomes.
StartCall(c) == StartAudioCapture(c, StartMicOutcomes)

\* desktopCapturer.getSources settles: checkSystemPermissions returns
\* (lines 80-107) and startAudioCapture runs on to its next await, the one
\* on killExistingSystemAudioDump (lines 187-198, 291-295, 402-428).
PermResolve(c) ==
  /\ call[c].at = "perm"
  /\ \E screen \in ScreenOutcomes :
       Permitted(c, call[c], CheckSystemPermissions(platform, call[c].mic, screen))

\* How the pkill of killExistingSystemAudioDump ends (lines 410-427).
PkillOutcomes == {"exit0", "exit1", "error", "timeout"}
\* What spawn(systemAudioPath, ...) does (lines 313-319).
SpawnOutcomes == {"pid", "nopid", "throws"}

\* The subprocesses of this service a pkill that ended with code may have
\* signalled: exit code 1 says none matched, 'error' that pkill never ran.
PkillVictims(code) ==
  IF code \in {"exit1", "error"} THEN {{}} ELSE SUBSET Alive

\* The object spawn() returns for a process that runs, with the handlers of
\* lines 332-365 registered and the closure constants of lines 324-330.
Running(cfg) ==
  [Unborn EXCEPT !.state = "alive", !.handlers = TRUE,
                 !.closure = Closure(cfg), !.startConfig = cfg]

\* The object spawn() returns when the process could not be started: no pid,
\* and startMacOSAudioCapture throws before it registers a handler.
Failed == [Unborn EXCEPT !.state = "nopid"]

\* A process that has ended.  Its handlers never run again, so what they
\* closed over is dropped; signalled tells whether it had been sent a signal,
\* and kills counts from here on the kill() calls made on the ended process.
Gone(pr) == [Unborn EXCEPT !.state = "gone", !.signalled = pr.signalled]

\* pkill ends: killExistingSystemAudioDump resolves and startMacOSAudioCapture
\* runs to its end, and with it startAudioCapture (lines 297-366, 205-219).
\* victims are the subprocesses of this service pkill has signalled.
KillResolve(c) ==
  /\ call[c].at = "kill"
  /\ \E victims \in UNION {PkillVictims(code) : code \in PkillOutcomes} :
       LET swept == [p \in Pids |->
                       IF p \in victims
                       THEN [procs[p] EXCEPT !.signalled = TRUE]
                       ELSE procs[p]]
           pid == NextPid
       IN  \E exists \in BOOLEAN :
           IF ~exists
           THEN \E isPackaged \in BOOLEAN :
                /\ StartThrows(c, call[c],
                       SystemAudioError(BinaryNotFound(SystemAudioPath(isPackaged)), platform),
                       {"permissions", "pkill", "existsSync"}, SystemAudioPath(isPackaged))
                /\ procs' = swept
                /\ UNCHANGED <<platform, systemAudioProc, audioChunks, config, startedOk>>
           ELSE \E sp \in SpawnOutcomes :
                IF sp = "throws"
                THEN /\ StartThrows(c, call[c], PlainError(<<"spawn EAGAIN">>),
                            {"permissions", "pkill", "existsSync", "spawn"}, "none")
                     /\ procs' = swept
                     /\ UNCHANGED <<platform, systemAudioProc, audioChunks, config, startedOk>>
                ELSE IF sp = "nopid"
                THEN /\ StartThrows(c, call[c],
                            SystemAudioError(<<"Failed to start SystemAudioDump">>, platform),
                            {"permissions", "pkill", "existsSync", "spawn"}, "none")
                     /\ systemAudioProc' = pid
                     /\ procs' = [swept EXCEPT ![pid] = Failed]
                     /\ UNCHANGED <<platform, audioChunks, config, startedOk>>
                ELSE /\ systemAudioProc' = pid
                     /\ procs' = [swept EXCEPT ![pid] = Running(config)]
                     /\ ret' = StartOk(call[c], FALSE,
                            {"permissions", "pkill", "existsSync", "spawn", "handlers"})
                     /\ call' = [call EXCEPT ![c] = NoCall]
                     /\ startedOk' = TRUE
                     /\ UNCHANGED <<platform, isCapturing, audioChunks, config>>

\* A faulty variant of KillTimeout: no timer is armed, the wait ends only
\* when pkill does.
KillTimeoutNeverArmed(c) ==
  /\ call[c].at = "kill"
  /\ FALSE
  /\ UNCHANGED vars

\* The timer of lines 424-427 fires for the suspended call c: pkill is
\* killed, whatever it has signalled so far stays signalled, and the promise
\* resolves.  PkillVictims("timeout") is every set of victims, so the step
\* is one of KillResolve(c); it is named for the fairness the timer gives.
KillTimeout(c) ==
  /\ PkillVictims("timeout") = SUBSET Alive
  /\ KillResolve(c)

\* ---------------------------------------------------- stopAudioCapture
\* this.systemAudioProc.kill('SIGTERM') on the object pr (line 387): a
\* process that runs receives the signal.
Kill(pr) ==
  [pr EXCEPT !.kills = @ + 1,
             !.signalled = IF pr.state = "alive" THEN TRUE ELSE @]

\* stopMacOSAudioCapture (lines 384-390): the process table afterwards.
StopMacOSAudioCapture ==
  IF systemAudioProc # 0
  THEN [procs EXCEPT ![systemAudioProc] = Kill(@)]
  ELSE procs

\* Every start call suspended while stopAudioCapture runs is overlapped.
Overlapped ==
  [d \in Callers |->
     IF call[d].at # "idle" THEN [call[d] EXCEPT !.solo = FALSE] ELSE call[d]]

\* A faulty variant of StopCall: the chunk list is cleared before it is
\* copied for the caller.
StopCallClearsFirst ==
  /\ startedOk' = FALSE
  /\ call' = Overlapped
  /\ IF ~isCapturing
     THEN /\ ret' = [NoRet EXCEPT !.op = "stop", !.ok = TRUE]
          /\ UNCHANGED <<platform, service, procs>>
     ELSE /\ procs' = IF platform = "macos" THEN StopMacOSAudioCapture ELSE procs
          /\ systemAudioProc' = 0
          /\ isCapturing' = FALSE
          /\ audioChunks' = <<>>
          /\ ret' = [NoRet EXCEPT !.op = "stop", !.ok = TRUE, !.hasChunks = TRUE,
                                  !.chunks = <<>>,
                                  !.killed = IF platform = "macos" THEN systemAudioProc ELSE 0]
          /\ UNCHANGED <<platform, config>>

\* A faulty variant of StopCall: without the guard of lines 224-226.
StopCallNoGuard ==
  /\ startedOk' = FALSE
  /\ call' = Overlapped
  /\ procs' = IF platform = "macos" THEN StopMacOSAudioCapture ELSE procs
  /\ systemAudioProc' = 0
  /\ isCapturing' = FALSE
  /\ audioChunks' = <<>>
  /\ ret' = [NoRet EXCEPT !.op = "stop", !.ok = TRUE, !.hasChunks = TRUE,
                          !.chunks = audioChunks,
                          !.killed = IF platform = "macos" THEN systemAudioProc ELSE 0]
  /\ UNCHANGED <<platform, config>>

\* stopAudioCapture (lines 222-256).  killed is the object kill() was called
\* on, in history.
StopCall ==
  /\ startedOk' = FALSE
  /\ call' = Overlapped
  /\ IF ~isCapturing
     THEN /\ ret' = [NoRet EXCEPT !.op = "stop", !.ok = TRUE]
          /\ UNCHANGED <<platform, service, procs>>
     ELSE /\ procs' = IF platform = "macos" THEN StopMacOSAudioCapture ELSE procs
          /\ systemAudioProc' = IF platform = "macos" THEN 0 ELSE systemAudioProc
          /\ isCapturing' = FALSE
          /\ audioChunks' = <<>>
          /\ ret' = [NoRet EXCEPT !.op = "stop", !.ok = TRUE, !.hasChunks = TRUE,
                                  !.chunks = audioChunks,
                                  !.killed = IF platform = "macos" THEN systemAudioProc ELSE 0]
          /\ UNCHANGED <<platform, config>>

\* ---------------------------------------------------------- updateConfig
\* A faulty variant of UpdateConfig: the partial replaces the config
\* wholesale, on top of the platform default.
UpdateConfigReplaces(partial) ==
  /\ config' = Merge(AUDIO_CONFIGS(platform), partial)
  /\ ret' = NoRet
  /\ UNCHANGED <<platform, isCapturing, systemAudioProc, audioChunks, procs, call, startedOk>>

\* updateConfig (lines 282-285).
UpdateConfig(partial) ==
  /\ config' = Merge(config, partial)
  /\ ret' = NoRet
  /\ UNCHANGED <<platform, isCapturing, systemAudioProc, audioChunks, procs, call, startedOk>>

\* getConfig (lines 278-280): a copy of this.config.
GetConfig ==
  /\ ret' = [NoRet EXCEPT !.op = "getConfig", !.out = config]
  /\ UNCHANGED <<platform, service, procs, call, startedOk>>

\* A faulty variant of CheckPermissionsCall: the status of the call before
\* is kept and handed out again.
CheckPermissionsCallCached ==
  \E mic \in MicOutcomes, screen \in ScreenOutcomes :
    /\ ret' = [NoRet EXCEPT !.op = "checkSystemPermissions", !.ok = TRUE,
                            !.arg = [mic |-> mic, screen |-> screen],
                            !.out = IF ret.op = "checkSystemPermissions"
                                    THEN ret.out
                                    ELSE CheckSystemPermissions(platform, mic, screen),
                            !.did = IF ret.op = "checkSystemPermissions"
                                    THEN {}
                                    ELSE PermissionQueries(platform, mic)]
    /\ UNCHANGED <<platform, service, procs, call, startedOk>>

\* checkSystemPermissions called by itself (lines 60-115, IPC handler of
\* lines 539-541): it reads and writes no field of the service, so the call
\* is one step whatever runs in between.  mic and screen are what the OS
\* permission store and the display-source provider would answer; arg keeps
\* them, did the collaborators asked.  The catch of lines 108-114 has nothing
\* to catch: the statements outside the inner try blocks do not throw.
CheckPermissionsCall ==
  \E mic \in MicOutcomes, screen \in ScreenOutcomes :
    /\ ret' = [NoRet EXCEPT !.op = "checkSystemPermissions", !.ok = TRUE,
                            !.arg = [mic |-> mic, screen |-> screen],
                            !.out = CheckSystemPermissions(platform, mic, screen),
                            !.did = PermissionQueries(platform, mic)]
    /\ UNCHANGED <<platform, service, procs, call, startedOk>>

\* What systemPreferences.askForMediaAccess('microphone') can do: resolve
\* with the user's answer, or reject.
AskOutcomes == {"true", "false", "rejects"}
AskError == PlainError(<<"askForMediaAccess failed">>)

\* The collaborators requestMicrophonePermission asks (lines 118-131).  Each
\* is asked by one statement outside any loop: once when it is asked at all.
MicrophoneRequests(plat, mic) ==
  IF plat # "macos"
  THEN {}
  ELSE IF mic \in {"throws", "granted"}
       THEN {"getMediaAccessStatus"}
       ELSE {"getMediaAccessStatus", "askForMediaAccess"}

\* A faulty variant of RequestMicrophonePermission: the prompt's exception
\* is let through to the caller.
RequestMicrophonePermissionLetsThrow(plat, mic, ask) ==
  IF plat # "macos"
  THEN [success |-> TRUE, status |-> "granted"]
  ELSE IF mic = "throws"
       THEN [success |-> FALSE, status |-> "denied", error |-> MicProbeError.message]
       ELSE IF mic = "granted"
            THEN [success |-> TRUE, status |-> "granted"]
            ELSE IF ask = "rejects"
                 THEN [thrown |-> AskError]
                 ELSE [success |-> (ask = "true"),
                       status |-> IF ask = "true" THEN "granted" ELSE "denied"]

\* requestMicrophonePermission (lines 117-144), as a function of what the OS
\* store answers (mic) and of how the prompt ends (ask): the value its
\* promise resolves with.
RequestMicrophonePermission(plat, mic, ask) ==
  IF plat # "macos"
  THEN [success |-> TRUE, status |-> "granted"]
  ELSE IF mic = "throws"
       THEN [success |-> FALSE, status |-> "denied", error |-> MicProbeError.message]
       ELSE IF mic = "granted"
            THEN [success |-> TRUE, status |-> "granted"]
            ELSE IF ask = "rejects"
                 THEN [success |-> FALSE, status |-> "denied", error |-> AskError.message]
                 ELSE [success |-> (ask = "true"),
                       status |-> IF ask = "true" THEN "granted" ELSE "denied"]

\* requestMicrophonePermission called by itself: like checkSystemPermissions
\* it touches no field of the service.  did lists the collaborators asked.
RequestMicrophoneCall ==
  \E mic \in MicOutcomes, ask \in AskOutcomes :
    /\ ret' = [NoRet EXCEPT !.op = "requestMicrophonePermission", !.ok = TRUE,
                            !.arg = [mic |-> mic, ask |-> ask],
                            !.out = RequestMicrophonePermission(platform, mic, ask),
                            !.did = MicrophoneRequests(platform, mic)]
    /\ UNCHANGED <<platform, service, procs, call, startedOk>>

\* The argument of openSystemPreferences.
Sections == {"screen-recording", "microphone"}

\* The collaborators openSystemPreferences asks (lines 147-159): the
\* enumeration of lines 156-159 has the arguments of the one of lines 76-79.
PreferencesQueries(plat, section) ==
  IF plat = "macos" /\ section = "screen-recording" THEN {"getSources"} ELSE {}

\* A faulty variant of OpenSystemPreferences: every platform is gated.
OpenSystemPreferencesAllGated(plat, section, screen) ==
  [success |-> TRUE]

\* A faulty variant of OpenSystemPreferences: a failed enumeration fails the
\* call.
OpenSystemPreferencesProbeFails(plat, section, screen) ==
  IF plat # "macos"
  THEN [success |-> FALSE, error |-> <<"Not supported on this platform">>]
  ELSE IF section = "screen-recording" /\ screen = "rejects"
       THEN [success |-> FALSE, error |-> ScreenProbeError.message]
       ELSE [success |-> TRUE]

\* openSystemPreferences (lines 146-174), as a function of its argument and
\* of how the enumeration ends: the inner catch of lines 161-163 swallows
\* its rejection, so the outer one (lines 167-173) has nothing to catch.
OpenSystemPreferences(plat, section, screen) ==
  IF plat # "macos"
  THEN [success |-> FALSE, error |-> <<"Not supported on this platform">>]
  ELSE [success |-> TRUE]

\* openSystemPreferences called by itself.
OpenSystemPreferencesCall ==
  \E section \in Sections, screen \in ScreenOutcomes :
    /\ ret' = [NoRet EXCEPT !.op = "openSystemPreferences", !.ok = TRUE,
                            !.arg = [section |-> section, screen |-> screen],
                            !.out = OpenSystemPreferences(platform, section, screen),
                            !.did = PreferencesQueries(platform, section)]
    /\ UNCHANGED <<platform, service, procs, call, startedOk>>

\* ------------------------------------------------------------- screenshots
\* SCREENSHOT_CONFIGS[quality].
SCREENSHOT_CONFIGS(quality) ==
  [jpegQuality |-> CASE quality = "low" -> 60
                     [] quality = "medium" -> 80
                     [] quality = "high" -> 90,
   height |-> 384,
   format |-> "jpeg"]

\* The ScreenshotOptions of the calls of the model: the default {} and one
\* that names a quality.
ScreenshotOptionSets == {NoPartial, [quality |-> "high"]}

\* options.quality || 'medium'
QualityOf(options) ==
  IF "quality" \in DOMAIN options THEN options.quality ELSE "medium"

\* The step of captureMacOSScreenshot that fails, if any: the capture
\* command (line 441), the file read (442), the file delete (443), the
\* resize and encode (446-450).
MacOSFailures == {"none", "screencapture", "readFile", "unlink", "sharp"}

\* The Error a failing step raises (the test rejects execFile with the first
\* message).
ScreenshotError(step) ==
  CASE step = "screencapture" -> PlainError(<<"Screenshot failed">>)
    [] step = "readFile" -> PlainError(<<"ENOENT: no such file or directory">>)
    [] step = "unlink" -> PlainError(<<"EPERM: operation not permitted, unlink">>)
    [] step = "sharp" -> PlainError(<<"Input buffer contains unsupported image format">>)
    [] step = "getSources" -> PlainError(<<"Failed to get sources">>)
    [] step = "toJPEG" -> PlainError(<<"toJPEG failed">>)

\* What desktopCapturer.getSources of lines 475-481 can do: reject, or
\* resolve with a list of sources, each with a thumbnail that encodes
\* ("image"), with one whose toJPEG throws ("broken"), or without one.
SourceLists ==
  {<<>>, <<"image">>, <<"broken">>, <<"none">>, <<"image", "none">>}
Enumerations ==
  {[rejects |-> TRUE, list |-> <<>>]} \cup {[rejects |-> FALSE, list |-> l] : l \in SourceLists}

\* What the providers do during one captureScreenshot call.
ScreenshotEnvs(plat) ==
  IF plat = "macos"
  THEN {[fails |-> f] : f \in MacOSFailures}
  ELSE {[sources |-> e] : e \in Enumerations}

\* { success: false, error: error.message } of the catch blocks.
ScreenshotFailed(e) == [success |-> FALSE, error |-> e.message]

\* A faulty variant of CaptureMacOSScreenshot: a temp file that cannot be
\* deleted is let through as an exception.
CaptureMacOSScreenshotThrowsOnUnlink(options, fails) ==
  LET cfg == SCREENSHOT_CONFIGS(QualityOf(options))
  IN  IF fails = "unlink"
      THEN [thrown |-> ScreenshotError(fails)]
      ELSE IF fails # "none"
           THEN ScreenshotFailed(ScreenshotError(fails))
           ELSE [success |-> TRUE,
                 base64 |-> <<"jpeg", cfg.jpegQuality>>,
                 width |-> "metadata.width",
                 height |-> cfg.height]

\* captureMacOSScreenshot (lines 435-468): every step is inside the try,
\* and the image is resized to config.height.
CaptureMacOSScreenshot(options, fails) ==
  LET cfg == SCREENSHOT_CONFIGS(QualityOf(options))
  IN  IF fails # "none"
      THEN ScreenshotFailed(ScreenshotError(fails))
      ELSE [success |-> TRUE,
            base64 |-> <<"jpeg", cfg.jpegQuality>>,
            width |-> "metadata.width",
            height |-> cfg.height]

\* A faulty variant of CaptureCrossPlatformScreenshot: without the length
\* check of lines 483-485.
CaptureCrossPlatformScreenshotNoLengthCheck(options, sources) ==
  LET cfg == SCREENSHOT_CONFIGS(QualityOf(options))
  IN  IF sources.rejects
      THEN ScreenshotFailed(ScreenshotError("getSources"))
      ELSE IF Len(sources.list) = 0 \/ sources.list[1] = "none"
      THEN ScreenshotFailed(PlainError(<<"No valid screen source/thumbnail available">>))
      ELSE IF sources.list[1] = "broken"
      THEN ScreenshotFailed(ScreenshotError("toJPEG"))
      ELSE [success |-> TRUE,
            base64 |-> <<"jpeg", cfg.jpegQuality>>,
            width |-> "size.width",
            height |-> "size.height"]

\* captureCrossPlatformScreenshot (lines 470-508).
CaptureCrossPlatformScreenshot(options, sources) ==
  LET cfg == SCREENSHOT_CONFIGS(QualityOf(options))
  IN  IF sources.rejects
      THEN ScreenshotFailed(ScreenshotError("getSources"))
      ELSE IF Len(sources.list) = 0
      THEN ScreenshotFailed(PlainError(<<"No screen sources available">>))
      ELSE IF sources.list[1] = "none"
      THEN ScreenshotFailed(PlainError(<<"No valid screen source/thumbnail available">>))
      ELSE IF sources.list[1] = "broken"
      THEN ScreenshotFailed(ScreenshotError("toJPEG"))
      ELSE [success |-> TRUE,
            base64 |-> <<"jpeg", cfg.jpegQuality>>,
            width |-> "size.width",
            height |-> "size.height"]

\* captureScreenshot (lines 258-272): both private methods catch what they
\* raise, so the catch of lines 265-271 has nothing to catch.
CaptureScreenshot(plat, options, env) ==
  IF plat = "macos"
  THEN CaptureMacOSScreenshot(options, env.fails)
  ELSE CaptureCrossPlatformScreenshot(options, env.sources)

\* A faulty variant of CaptureScreenshotCall: a failed capture ends the
\* session.
CaptureScreenshotCallEndsSession ==
  \E options \in ScreenshotOptionSets, env \in ScreenshotEnvs(platform) :
    LET out == CaptureScreenshot(platform, options, env)
    IN  /\ ret' = [NoRet EXCEPT !.op = "captureScreenshot", !.ok = TRUE,
                                !.arg = [options |-> options, env |-> env],
                                !.out = out]
        /\ isCapturing' = IF out.success THEN isCapturing ELSE FALSE
        /\ audioChunks' = IF out.success THEN audioChunks ELSE <<>>
        /\ UNCHANGED <<platform, systemAudioProc, config, procs, call, startedOk>>

\* captureScreenshot called through the IPC handler of lines 559-561.  The
\* method and the two it delegates to read and write no field of the
\* service but isMacOS, so the call is one step whatever runs between its
\* awaits.
CaptureScreenshotCall ==
  \E options \in ScreenshotOptionSets, env \in ScreenshotEnvs(platform) :
    /\ ret' = [NoRet EXCEPT !.op = "captureScreenshot", !.ok = TRUE,
                            !.arg = [options |-> options, env |-> env],
                            !.out = CaptureScreenshot(platform, options, env)]
    /\ UNCHANGED <<platform, service, procs, call, startedOk>>

\* convertStereoToMono called by itself on buffer, as its test calls it.
ConvertCall(buffer) ==
  /\ ret' = [NoRet EXCEPT !.op = "convertStereoToMono",
                          !.arg = buffer,
                          !.out = ConvertStereoToMono(buffer)]
  /\ UNCHANGED <<platform, service, procs, call, startedOk>>

\* One session of a subprocess spawned under the config in force: the data
\* events sizes, handled in turn.  out is the accumulator and the slices
\* afterwards.
FeedCall(sizes) ==
  /\ ret' = [NoRet EXCEPT !.op = "feed",
                          !.arg = sizes,
                          !.out = FeedAll(sizes, Closure(config))]
  /\ UNCHANGED <<platform, service, procs, call, startedOk>>

\* ------------------------------------------------------ subprocess events
\* A faulty variant of OnData: the handler reads this.config when it runs
\* instead of the constants it closed over.
OnDataLiveConfig(p, n) ==
  /\ procs[p].state = "alive"
  /\ procs[p].handlers
  /\ LET cl == Closure(config)
         total == procs[p].audioBuffer + n
         w == Windows(total, cl)
         pushed == [i \in 1..w |-> Chunk(p, cl)]
     IN  /\ Len(audioChunks) + w <= MaxChunks
         /\ audioChunks' = audioChunks \o pushed
         /\ procs' = [procs EXCEPT ![p].audioBuffer = total - w * WindowBytes(cl)]
         /\ ret' = [NoRet EXCEPT !.op = "data", !.chunks = pushed]
  /\ UNCHANGED <<platform, isCapturing, systemAudioProc, config, call, startedOk>>

\* The stdout 'data' handler of subprocess p on a buffer of n bytes
\* (lines 332-351).
OnData(p, n) ==
  /\ procs[p].state = "alive"
  /\ procs[p].handlers
  /\ LET cl == procs[p].closure
         total == procs[p].audioBuffer + n
         w == Windows(total, cl)
         pushed == [i \in 1..w |-> Chunk(p, cl)]
     IN  /\ Len(audioChunks) + w <= MaxChunks
         /\ audioChunks' = audioChunks \o pushed
         /\ procs' = [procs EXCEPT ![p].audioBuffer = total - w * WindowBytes(cl)]
         /\ ret' = [NoRet EXCEPT !.op = "data", !.chunks = pushed]
  /\ UNCHANGED <<platform, isCapturing, systemAudioProc, config, call, startedOk>>

\* A faulty variant of OnProcExit: the handlers leave the stored handle alone.
OnProcExitKeepsHandle(p) ==
  /\ procs[p].state = "alive"
  /\ procs' = [procs EXCEPT ![p] = Gone(@)]
  /\ ret' = NoRet
  /\ UNCHANGED <<platform, isCapturing, systemAudioProc, audioChunks, config, call, startedOk>>

\* Subprocess p ends, by itself or after a signal: its 'close' handler (lines
\* 357-360) runs; the 'error' handler (lines 362-365) has the same body.
OnProcExit(p) ==
  /\ procs[p].state = "alive"
  /\ procs' = [procs EXCEPT ![p] = Gone(@)]
  /\ systemAudioProc' = IF procs[p].handlers THEN 0 ELSE systemAudioProc
  /\ ret' = NoRet
  /\ UNCHANGED <<platform, isCapturing, audioChunks, config, call, startedOk>>

\* ------------------------------------------------------- specification
Next ==
  \/ \E c \in Callers : StartCall(c)
  \/ \E c \in Callers : PermResolve(c)
  \/ \E c \in Callers : KillResolve(c)
  \/ StopCall
  \/ \E partial \in Partials : UpdateConfig(partial)
  \/ \E p \in Pids, n \in DataSizes : OnData(p, n)
  \/ \E p \in Pids : OnProcExit(p)

Spec == Init /\ [][Next]_vars

\* The service driven by one client that awaits each call before it makes
\* the next: no start or stop is issued while a start is suspended.
SequentialNext ==
  \/ \E c \in Callers : InFlight = {} /\ StartCall(c)
  \/ \E c \in Callers : PermResolve(c)
  \/ \E c \in Callers : KillResolve(c)
  \/ InFlight = {} /\ StopCall
  \/ \E partial \in Partials : UpdateConfig(partial)
  \/ \E p \in Pids, n \in DataSizes : OnData(p, n)
  \/ \E p \in Pids : OnProcExit(p)

SpecSequential == Init /\ [][SequentialNext]_vars

\* The configuration and permission calls on their own, from a service
\* constructed with any of ConfigPartials.
CallsInit ==
  /\ platform \in Platforms
  /\ isCapturing = FALSE
  /\ systemAudioProc = 0
  /\ audioChunks = <<>>
  /\ \E p0 \in ConfigPartials \cup {NoPartial} : config = Merge(AUDIO_CONFIGS(platform), p0)
  /\ procs = [p \in Pids |-> Unborn]
  /\ call = [c \in Callers |-> NoCall]
  /\ ret = NoRet
  /\ startedOk = FALSE

CallsNext ==
  \/ \E partial \in ConfigPartials : UpdateConfig(partial)
  \/ GetConfig
  \/ CheckPermissionsCall

SpecCalls == CallsInit /\ [][CallsNext]_vars

\* The chunker on its own, over one session: a macOS service constructed
\* with any of ChunkerPartials, a client that awaits each call and starts
\* until a subprocess has been spawned, and that subprocess writing buffers
\* of ChunkerDataSizes.
ChunkerInit ==
  /\ platform = "macos"
  /\ isCapturing = FALSE
  /\ systemAudioProc = 0
  /\ audioChunks = <<>>
  /\ \E p0 \in ChunkerPartials : config = Merge(AUDIO_CONFIGS(platform), p0)
  /\ procs = [p \in Pids |-> Unborn]
  /\ call = [c \in Callers |-> NoCall]
  /\ ret = NoRet
  /\ startedOk = FALSE

ChunkerNext ==
  \/ \E c \in Callers : InFlight = {} /\ Spawned = {} /\ StartCall(c)
  \/ \E c \in Callers : PermResolve(c)
  \/ \E c \in Callers : KillResolve(c)
  \/ InFlight = {} /\ StopCall
  \/ \E p \in Pids, n \in ChunkerDataSizes : OnData(p, n)
  \/ \E p \in Pids : OnProcExit(p)

SpecChunker == ChunkerInit /\ [][ChunkerNext]_vars

\* The downmix on its own.
DownmixNext == \E buffer \in StereoBuffers : ConvertCall(buffer)

SpecDownmix == Init /\ [][DownmixNext]_vars

\* The permission calls among the starts and stops of one client that awaits
\* each start and stop; the permission calls may come at any time.
PermissionsNext ==
  \/ \E c \in Callers : InFlight = {} /\ StartCall(c)
  \/ \E c \in Callers : PermResolve(c)
  \/ \E c \in Callers : KillResolve(c)
  \/ InFlight = {} /\ StopCall
  \/ \E p \in Pids : OnProcExit(p)
  \/ CheckPermissionsCall
  \/ RequestMicrophoneCall
  \/ OpenSystemPreferencesCall

SpecPermissions == Init /\ [][PermissionsNext]_vars

\* Screenshots among the calls and events of a session: one client that
\* awaits each start and stop, and captureScreenshot at any time, a
\* suspended start included.
ScreenshotNext ==
  \/ \E c \in Callers : InFlight = {} /\ StartCall(c)
  \/ \E c \in Callers : PermResolve(c)
  \/ \E c \in Callers : KillResolve(c)
  \/ InFlight = {} /\ StopCall
  \/ \E partial \in Partials : UpdateConfig(partial)
  \/ \E p \in Pids, n \in DataSizes : OnData(p, n)
  \/ \E p \in Pids : OnProcExit(p)
  \/ CaptureScreenshotCall

SpecScreenshot == Init /\ [][ScreenshotNext]_vars

\* What the scheduling of the code guarantees of a suspended start: a timer
\* that was armed fires (setTimeout, line 424).  Nothing bounds the close and
\* error events of pkill, nor the settling of desktopCapturer.getSources.
TimersFire == \A c \in Callers : WF_vars(KillTimeout(c))

\* One client awaiting each call, with the timers firing.
SpecTimeouts == Init /\ [][SequentialNext]_vars /\ TimersFire

\* The stdout handler on its own, over whole sessions.
FeedNext == \E sizes \in FeedSequences : FeedCall(sizes)

SpecFeed == ChunkerInit /\ [][FeedNext]_vars

\* ================================================================ claims
\* The subprocesses that run, have been sent no signal and feed the chunk
\* list through their stdout handler.
Feeding ==
  {p \in Pids : procs[p].state = "alive" /\ ~procs[p].signalled /\ procs[p].handlers}

\* C1: at most one capture session is active: in every interleaving of start
\* and stop calls on macOS there is never more than one spawned subprocess
\* that is alive, not yet signalled and feeding the chunk list.
C1_SingleFeedingSubprocess == Cardinality(Feeding) <= 1

\* C2: once a start has returned success and no stop has been called since,
\* every further start returns { success: true } at once: no permission
\* check, no straggler kill, no spawn, no handler registration, and
\* isCapturing, the chunk list and the subprocess handle are unchanged.
C2_StartIdempotent ==
  [][\A c \in Callers :
       (startedOk /\ StartCall(c)) =>
         /\ ret'.op = "start" /\ ret'.ok /\ ret'.noop /\ ret'.did = {}
         /\ UNCHANGED <<isCapturing, audioChunks, systemAudioProc, procs, call>>]_vars

\* C3: a stop called while Capturing with a live subprocess handle sends
\* SIGTERM to that subprocess once and to no other, clears the handle and
\* goes Idle while the subprocess still runs, and returns success with the
\* chunk list as accumulated, in order; the list is empty afterwards and a
\* stop that follows at once returns no chunks.
C3_StopDrains ==
  [][/\ (/\ isCapturing
         /\ systemAudioProc # 0
         /\ procs[systemAudioProc].state = "alive"
         /\ StopCall)
        => /\ procs'[systemAudioProc] =
                [procs[systemAudioProc] EXCEPT !.kills = @ + 1, !.signalled = TRUE]
           /\ \A p \in Pids \ {systemAudioProc} : procs'[p] = procs[p]
           /\ systemAudioProc' = 0
           /\ ~isCapturing'
           /\ ret'.op = "stop" /\ ret'.ok /\ ret'.hasChunks
           /\ ret'.chunks = audioChunks
           /\ ret'.killed = systemAudioProc
           /\ audioChunks' = <<>>
     /\ (ret.op = "stop" /\ ret.killed # 0 /\ StopCall)
        => (ret'.ok /\ ~ret'.hasChunks /\ ret'.chunks = <<>>)]_vars

\* A stop has just signalled the running subprocess it held and returned
\* two chunks.
C3_Witness ==
  /\ ret.op = "stop" /\ ret.ok /\ ret.killed # 0
  /\ procs[ret.killed].state = "alive" /\ procs[ret.killed].kills = 1
  /\ Len(ret.chunks) = 2
  /\ audioChunks = <<>> /\ ~isCapturing /\ systemAudioProc = 0

\* C4: a stop called while Idle returns { success: true } without chunks and
\* changes nothing: no signal is sent, and isCapturing, the chunk list, the
\* subprocess handle and the config stay as they were, call after call.
C4_IdleStopNoEffect ==
  [][(~isCapturing /\ StopCall) =>
       /\ ret' = [NoRet EXCEPT !.op = "stop", !.ok = TRUE]
       /\ UNCHANGED <<isCapturing, audioChunks, systemAudioProc, config, procs>>]_vars

\* An Idle stop has just returned while the service held a handle and a
\* chunk pushed after the session was stopped.
C4_Witness ==
  /\ ret.op = "stop" /\ ret.ok /\ ~ret.hasChunks
  /\ ~isCapturing
  /\ Len(audioChunks) > 0
  /\ systemAudioProc # 0

\* C5: a start from Idle whose permission check reports needsSetup rejects
\* with a PermissionError and leaves the orchestrator Idle: it has run no
\* straggler kill, no binary check and no spawn, and the chunk list and the
\* process table are unchanged.
C5_NeedsSetupRejects ==
  [][LET Rejected ==
           /\ ret'.op = "start" /\ ~ret'.ok
           /\ ret'.err = PermissionError(NeedsSetupMessage, platform)
           /\ ret'.did = {"permissions"}
           /\ ~isCapturing'
           /\ UNCHANGED <<audioChunks, systemAudioProc, procs, config>>
     IN  \A c \in Callers :
           \* the microphone query throws inside the call (lines 71, 85-89)
           /\ (call[c].at = "idle" /\ ~isCapturing)
                => LET status == CheckSystemPermissions(platform, "throws", "unasked")
                   IN  (/\ status.needsSetup
                        /\ Permitted(c, Entering("throws"), status)
                        /\ StartCall(c))
                       => Rejected
           \* getSources settles for a suspended call (lines 76-84)
           /\ call[c].at = "perm"
                => \A screen \in ScreenOutcomes :
                     LET status == CheckSystemPermissions(platform, call[c].mic, screen)
                     IN  (/\ status.needsSetup
                          /\ Permitted(c, call[c], status)
                          /\ PermResolve(c))
                         => Rejected]_vars

\* A start has just been rejected for missing permissions while the chunk
\* list held a chunk.
C5_Witness ==
  /\ ret.op = "start" /\ ret.err.name = "PermissionError"
  /\ ~isCapturing
  /\ Len(audioChunks) > 0

\* C6: with the capture binary absent at the resolved path, start rejects
\* with the binary-not-found error (a SystemAudioError in this code) whose
\* message holds the attempted path, and the orchestrator is Idle; the start
\* that follows it and finds the binary is no no-op: it spawns, succeeds and
\* leaves the orchestrator Capturing with a running subprocess (for a start
\* that no other call overlaps).
C6_BinaryNotFoundRecovers ==
  /\ (ret.op = "start" /\ "existsSync" \in ret.did /\ "spawn" \notin ret.did)
       => /\ ~ret.ok
          /\ ret.path \in {SystemAudioPath(TRUE), SystemAudioPath(FALSE)}
          /\ ret.err = SystemAudioError(BinaryNotFound(ret.path), platform)
          /\ ~isCapturing
  /\ (ret.op = "start" /\ ret.retry /\ ret.ok /\ ret.solo)
       => /\ ~ret.noop
          /\ "spawn" \in ret.did
          /\ isCapturing
          /\ systemAudioProc # 0
          /\ procs[systemAudioProc].state = "alive"

\* The start after a binary-not-found rejection has just succeeded.
C6_Witness ==
  /\ ret.op = "start" /\ ret.retry /\ ret.ok /\ ret.solo
  /\ isCapturing

\* C7: every start call that rejects leaves isCapturing false when it
\* returns, and rejects with a typed error: a PlatformAudioError subclass is
\* passed on unchanged, any other exception comes wrapped in an
\* AudioDeviceError with the original message and the platform.
C7_RejectionsTyped ==
  (ret.op = "start" /\ ~ret.ok)
    => /\ ~isCapturing
       /\ ret.thrown # NoError
       /\ IsPlatformAudioError(ret.err)
       /\ IF ret.thrown.name \in {"PermissionError", "SystemAudioError", "AudioDeviceError"}
          THEN ret.err = ret.thrown
          ELSE /\ ret.err.name = "AudioDeviceError"
               /\ ret.err.code = "AUDIO_DEVICE_ERROR"
               /\ ret.err.message = ret.thrown.message
               /\ ret.err.platform = platform

\* A start has just rejected with a wrapped plain Error.
C7_Witness ==
  /\ ret.op = "start" /\ ~ret.ok
  /\ ret.thrown.name = "Error"
  /\ ret.err.name = "AudioDeviceError"

\* C8: after stop and an immediate start, the late close/error event of the
\* old subprocess does not disturb the new session: once it has run, the
\* stored handle is still the newly spawned subprocess, for the next stop to
\* signal.
C8_LateExitKeepsNewHandle ==
  [][\A p \in Pids :
       (/\ OnProcExit(p)
        /\ procs[p].kills > 0
        /\ isCapturing
        /\ InFlight = {}
        /\ systemAudioProc \notin {0, p}
        /\ procs[systemAudioProc].state = "alive")
       => systemAudioProc' = systemAudioProc]_vars

\* C9: a subprocess that ends by itself during a session does not fail the
\* later stop: its close/error event clears the handle, no kill() is ever
\* called on an ended process, and a stop called while Capturing without a
\* handle signals nothing, returns success with the chunks accumulated and
\* goes Idle.
C9_SelfExitThenStop ==
  [][/\ \A p \in Pids :
          (OnProcExit(p) /\ systemAudioProc = p) => systemAudioProc' = 0
     /\ \A p \in Pids :
          procs'[p].state = "gone" => procs'[p].kills = 0
     /\ (isCapturing /\ systemAudioProc = 0 /\ StopCall)
          => /\ ret'.op = "stop" /\ ret'.ok /\ ret'.hasChunks
             /\ ret'.chunks = audioChunks
             /\ ret'.killed = 0
             /\ procs' = procs
             /\ ~isCapturing']_vars

\* A stop has just returned a chunk of a subprocess that had ended by
\* itself, unsignalled, and signalled nothing.
C9_Witness ==
  /\ ret.op = "stop" /\ ret.ok /\ ret.hasChunks /\ ret.killed = 0
  /\ \E i \in 1..Len(ret.chunks) :
       /\ procs[ret.chunks[i].src].state = "gone"
       /\ ~procs[ret.chunks[i].src].signalled
  /\ \A p \in Pids : procs[p].state # "alive"

\* The chunk the stdout handler makes under config cfg.
ChunkUnder(cfg, ch) ==
  /\ ch.duration = cfg.chunkDuration
  /\ ch.sampleRate = cfg.sampleRate
  /\ ch.window * Scale = cfg.sampleRate * cfg.bitsPerSample * cfg.channels * cfg.chunkDuration
  /\ ch.bytes = IF cfg.channels = 2 THEN ch.window \div 2 ELSE ch.window

\* C10: updateConfig during a session does not change its chunking: every
\* chunk a subprocess pushes has the chunk size, channel count, duration and
\* sample rate of the config in force when its start spawned it.
C10_ChunkingFixedAtStart ==
  ret.op = "data" =>
    \A i \in 1..Len(ret.chunks) :
      ChunkUnder(procs[ret.chunks[i].src].startConfig, ret.chunks[i])

\* The subprocess of the session in flight has just pushed a chunk although
\* updateConfig has changed every chunking parameter since it was spawned.
C10_Witness ==
  /\ ret.op = "data" /\ Len(ret.chunks) > 0
  /\ isCapturing
  /\ systemAudioProc = ret.chunks[1].src
  /\ ~ChunkUnder(config, ret.chunks[1])
  /\ procs[systemAudioProc].startConfig.channels # config.channels

\* cfg is base overridden, field by field, by partial.
OverriddenBy(cfg, base, partial) ==
  /\ DOMAIN cfg = DOMAIN base
  /\ \A f \in DOMAIN base :
       cfg[f] = IF f \in DOMAIN partial THEN partial[f] ELSE base[f]

\* C11: the effective config is a field-wise merge, never a wholesale
\* replacement: construction gives the platform default overridden by P0,
\* each updateConfig(Pi) overrides the fields Pi names and keeps every other
\* field, getConfig returns the config so built, and a field no partial
\* names keeps its platform default (the whole default with no partial).
C11_ConfigIsFieldwiseMerge ==
  /\ \E p0 \in ConfigPartials \cup {NoPartial} :
       OverriddenBy(config, AUDIO_CONFIGS(platform), p0)
  /\ [][/\ \A partial \in ConfigPartials :
             UpdateConfig(partial) => OverriddenBy(config', config, partial)
        /\ GetConfig => (ret'.out = config /\ config' = config)
        /\ \A f \in DOMAIN AUDIO_CONFIGS(platform) :
             (\A partial \in ConfigPartials : f \notin DOMAIN partial)
               => config'[f] = AUDIO_CONFIGS(platform)[f]]_vars

\* getConfig has just returned a config whose overridden fields come from
\* two different partials, the other fields being the platform default.
C11_Witness ==
  /\ ret.op = "getConfig" /\ ret.out = config
  /\ config.channels = 2 /\ config.sampleRate = 48000 /\ config.chunkDuration = 50
  /\ config.bitsPerSample = AUDIO_CONFIGS(platform).bitsPerSample
  /\ config.bufferSize = AUDIO_CONFIGS(platform).bufferSize

\* C12: in every reachable state chunkDuration > 0 and sampleRate,
\* bitsPerSample and channels are all > 0.
C12_ConfigPositive ==
  /\ config.chunkDuration > 0
  /\ config.sampleRate > 0
  /\ config.bitsPerSample > 0
  /\ config.channels > 0

\* The configs the claims on the chunk size call valid.
ValidConfig(cfg) ==
  /\ cfg.sampleRate > 0 /\ cfg.bitsPerSample > 0
  /\ cfg.channels > 0 /\ cfg.chunkDuration > 0

\* The frame size channels * bitsPerSample / 8, in the unit of CHUNK_SIZE.
FrameSize(cfg) == cfg.channels * cfg.bitsPerSample * 1000

\* C13: for every valid config the chunk size computed at start is a
\* positive whole multiple of the frame size channels * bitsPerSample / 8.
C13_ChunkSizeFrameAligned ==
  \A p \in Pids :
    (procs[p].state = "alive" /\ ValidConfig(procs[p].startConfig))
      => /\ procs[p].closure.CHUNK_SIZE > 0
         /\ procs[p].closure.CHUNK_SIZE % FrameSize(procs[p].startConfig) = 0

\* C14: the chunker emits only full windows: every chunk pushed was made
\* from exactly chunkSizeBytes input bytes, never fewer, and its payload has
\* chunkSizeBytes bytes for mono input and half of that after the stereo
\* downmix.
C14_OnlyFullWindows ==
  ret.op = "data" =>
    \A i \in 1..Len(ret.chunks) :
      LET ch == ret.chunks[i]
          cfg == procs[ch.src].startConfig
          chunkSize == cfg.sampleRate * cfg.bitsPerSample * cfg.channels * cfg.chunkDuration
      IN  /\ ch.window * Scale = chunkSize
          /\ ch.bytes * Scale = IF cfg.channels = 2 THEN chunkSize \div 2 ELSE chunkSize

\* The stereo config of the scenario of C15.
StereoScenario(cfg) ==
  /\ cfg.sampleRate = 24000 /\ cfg.channels = 2
  /\ cfg.bitsPerSample = 16 /\ cfg.chunkDuration = 100

\* The data event that gives subprocess p 10,000 bytes to slice: all at once
\* into an empty accumulator, or 5,000 more onto 5,000 that were too few for
\* a window.
TenThousandFed(p) ==
  /\ StereoScenario(procs[p].startConfig)
  /\ \/ procs[p].audioBuffer = 0 /\ OnData(p, 10000)
     \/ procs[p].audioBuffer = 5000 /\ OnData(p, 5000)

\* C15 as stated: with {24000 Hz, 2 channels, 16 bit, 0.1 s} the chunk size
\* is 4800 bytes, and 10,000 bytes of stereo PCM give exactly 2 mono chunks
\* of 2400 bytes each, 400 bytes staying in the accumulator.
C15_AsStated ==
  [][\A p \in Pids :
       TenThousandFed(p)
         => /\ procs[p].closure.CHUNK_SIZE = 4800 * Scale
            /\ Len(ret'.chunks) = 2
            /\ \A i \in 1..Len(ret'.chunks) : ret'.chunks[i].bytes = 2400
            /\ procs'[p].audioBuffer = 400]_vars

\* C15 as amended: with that config the chunk size is 9600 bytes, and 10,000
\* bytes of stereo PCM give exactly 1 mono chunk of 4800 bytes, 400 bytes
\* staying in the accumulator.
C15_StereoScenario ==
  [][\A p \in Pids :
       TenThousandFed(p)
         => /\ procs[p].closure.CHUNK_SIZE = 9600 * Scale
            /\ Len(ret'.chunks) = 1
            /\ ret'.chunks[1].window = 9600
            /\ ret'.chunks[1].bytes = 4800
            /\ audioChunks' = Append(audioChunks, ret'.chunks[1])
            /\ procs'[p].audioBuffer = 400]_vars

\* A subprocess started under the stereo config has just pushed its first
\* chunk and keeps 400 bytes.
C15_Witness ==
  /\ ret.op = "data" /\ Len(ret.chunks) = 1
  /\ StereoScenario(procs[ret.chunks[1].src].startConfig)
  /\ procs[ret.chunks[1].src].audioBuffer = 400
  /\ audioChunks = ret.chunks

\* Buffer.readInt16LE(offset) of the test.
ReadInt16LE(buffer, offset) == Int16Of(buffer[offset + 1], buffer[offset + 2])

\* C16: the stereo downmix of a 16-bit little-endian interleaved buffer of n
\* frames has n mono samples, sample i being (left_i + right_i) / 2 rounded
\* to a nearest integer; the frames (100,200),(150,250) give (150,200).
C16_DownmixAverages ==
  ret.op = "convertStereoToMono" =>
    LET n == Len(ret.arg) \div 4
    IN  /\ Len(ret.out) = 2 * n
        /\ \A i \in 0..(n - 1) :
             LET left == ReadInt16LE(ret.arg, 4 * i)
                 right == ReadInt16LE(ret.arg, 4 * i + 2)
                 mono == ReadInt16LE(ret.out, 2 * i)
             IN  2 * mono - (left + right) \in {-1, 0, 1}
        /\ ret.arg = <<100, 0, 200, 0, 150, 0, 250, 0>> => ret.out = <<150, 0, 200, 0>>

\* The buffer of the test has just been converted.
C16_Witness ==
  /\ ret.op = "convertStereoToMono"
  /\ ret.arg = <<100, 0, 200, 0, 150, 0, 250, 0>>
  /\ ret.out = <<150, 0, 200, 0>>

\* A probe that checkSystemPermissions has called has thrown.
ProbeThrew ==
  /\ ret.op = "checkSystemPermissions"
  /\ platform = "macos"
  /\ ret.arg.mic = "throws" \/ ret.arg.screen = "rejects"

\* C17: on the non-gated platforms checkSystemPermissions always returns
\* { microphone: granted, screen: granted, needsSetup: false }, whatever the
\* OS permission store and the display-source provider would answer, and asks
\* neither.
C17_NonGatedAlwaysGranted ==
  (ret.op = "checkSystemPermissions" /\ platform # "macos")
    => /\ ret.ok
       /\ ret.out = [microphone |-> "granted", screen |-> "granted", needsSetup |-> FALSE]
       /\ ret.did = {}

\* A non-gated platform has just answered while the microphone was denied
\* and the enumeration would have failed.
C17_Witness ==
  /\ ret.op = "checkSystemPermissions" /\ platform = "linux"
  /\ ret.arg = [mic |-> "denied", screen |-> "rejects"]
  /\ ret.out.microphone = "granted" /\ ret.out.screen = "granted"

\* C18: on macOS checkSystemPermissions returns as microphone the status
\* read from the OS permission store, and infers screen from the enumeration
\* of display sources: granted if it succeeds, denied with needsSetup if it
\* fails.
C18_GatedInfersScreen ==
  (ret.op = "checkSystemPermissions" /\ platform = "macos" /\ ret.arg.mic \in MicStatuses)
    => /\ ret.out.microphone = ret.arg.mic
       /\ ret.did = {"getMediaAccessStatus", "getSources"}
       /\ ret.arg.screen = "resolves" => ret.out.screen = "granted"
       /\ ret.arg.screen = "rejects" => (ret.out.screen = "denied" /\ ret.out.needsSetup)

\* macOS has just answered for an undetermined microphone and a failed
\* enumeration.
C18_Witness ==
  /\ ret.op = "checkSystemPermissions" /\ platform = "macos"
  /\ ret.arg = [mic |-> "not-determined", screen |-> "rejects"]
  /\ ret.out = [microphone |-> "not-determined", screen |-> "denied", needsSetup |-> TRUE]

\* C19 as stated: when a permission probe throws, checkSystemPermissions
\* does not throw and resolves to { unknown, unknown, needsSetup: true }.
C19_AsStated ==
  ProbeThrew
    => /\ ret.ok /\ ret.err = NoError
       /\ ret.out = [microphone |-> "unknown", screen |-> "unknown", needsSetup |-> TRUE]

\* C19 as amended: checkSystemPermissions never throws; when the microphone
\* query throws it resolves to { unknown, unknown, needsSetup: true } without
\* trying the enumeration, and when the enumeration fails it resolves to the
\* microphone status read, screen denied and needsSetup true.
C19_ProbeThrowsDegrades ==
  ProbeThrew
    => /\ ret.ok /\ ret.err = NoError
       /\ IF ret.arg.mic = "throws"
          THEN /\ ret.out = [microphone |-> "unknown", screen |-> "unknown",
                             needsSetup |-> TRUE]
               /\ ret.did = {"getMediaAccessStatus"}
          ELSE ret.out = [microphone |-> ret.arg.mic, screen |-> "denied",
                          needsSetup |-> TRUE]

\* The microphone query has just thrown although the enumeration would have
\* succeeded.
C19_Witness ==
  /\ ProbeThrew
  /\ ret.arg = [mic |-> "throws", screen |-> "resolves"]
  /\ ret.out.microphone = "unknown" /\ ret.out.screen = "unknown"

\* C20 as stated: when a permission query raises an exception, the status
\* returned has an error field holding the message of that exception.
C20_AsStated ==
  ProbeThrew
    => /\ "error" \in DOMAIN ret.out
       /\ ret.out.error = IF ret.arg.mic = "throws"
                          THEN MicProbeError.message
                          ELSE ScreenProbeError.message

\* C20 as amended: when a permission query raises an exception, the status
\* returned has the fields microphone, screen and needsSetup and no error
\* field (the message is logged or dropped).
C20_NoErrorField ==
  ProbeThrew => DOMAIN ret.out = {"microphone", "screen", "needsSetup"}

\* The case of the test: microphone denied, enumeration rejected.
C20_Witness ==
  /\ ProbeThrew
  /\ ret.arg = [mic |-> "denied", screen |-> "rejects"]
  /\ ret.out = [microphone |-> "denied", screen |-> "denied", needsSetup |-> TRUE]

\* C21: permission status is never cached.  On the gated platform every
\* checkSystemPermissions call asks the OS store and issues the enumeration,
\* and its result is the one of the answers it got, whatever an earlier call
\* had returned; every start from Idle asks the store and suspends on an
\* enumeration of its own (or is rejected at once when the store query
\* throws), and is accepted or rejected by how that enumeration ends.
C21_NeverCached ==
  [][/\ (platform = "macos" /\ CheckPermissionsCall)
          => LET a == ret'.arg
             IN  /\ "getMediaAccessStatus" \in ret'.did
                 /\ a.mic \in MicStatuses
                      => /\ "getSources" \in ret'.did
                         /\ ret'.out.microphone = a.mic
                         /\ ret'.out.screen =
                              IF a.screen = "resolves" THEN "granted" ELSE "denied"
                         /\ ret'.out.needsSetup = (a.screen = "rejects")
     /\ \A c \in Callers :
          /\ (platform = "macos" /\ call[c].at = "idle" /\ ~isCapturing /\ StartCall(c))
               => \/ call'[c].at = "perm" /\ call'[c].mic \in MicStatuses
                  \/ /\ ret'.op = "start" /\ ~ret'.ok
                     /\ ret'.err.name = "PermissionError"
          /\ call[c].at = "perm"
               => \A screen \in ScreenOutcomes :
                    (/\ Permitted(c, call[c],
                                  CheckSystemPermissions(platform, call[c].mic, screen))
                     /\ PermResolve(c))
                    => IF screen = "rejects"
                       THEN /\ ret'.op = "start" /\ ~ret'.ok
                            /\ ret'.err.name = "PermissionError"
                            /\ ~isCapturing'
                       ELSE /\ call'[c].at = "kill"
                            /\ isCapturing']_vars

\* A check made during a session has just reported the screen denied: the
\* enumeration of the start of this session had resolved.
C21_Witness ==
  /\ platform = "macos"
  /\ ret.op = "checkSystemPermissions"
  /\ ret.arg.mic = "granted" /\ ret.arg.screen = "rejects"
  /\ ret.out = [microphone |-> "granted", screen |-> "denied", needsSetup |-> TRUE]
  /\ isCapturing /\ systemAudioProc # 0
  /\ procs[systemAudioProc].state = "alive"

\* C22: on the gated platform requestMicrophonePermission returns
\* {success: true, status: 'granted'} without the OS prompt when the status
\* is granted already; otherwise it invokes the prompt, once, and returns
\* success true / 'granted' when the prompt answers true and success false /
\* 'denied' when it answers false; an exception gives {success: false,
\* status: 'denied', error} and is never thrown.
C22_RequestMicrophone ==
  (platform = "macos" /\ ret.op = "requestMicrophonePermission")
    => LET a == ret.arg
       IN  /\ DOMAIN ret.out \subseteq {"success", "status", "error"}
           /\ a.mic = "granted"
                => /\ ret.out = [success |-> TRUE, status |-> "granted"]
                   /\ "askForMediaAccess" \notin ret.did
           /\ a.mic \in MicStatuses \ {"granted"}
                => /\ "askForMediaAccess" \in ret.did
                   /\ a.ask = "true"
                        => ret.out = [success |-> TRUE, status |-> "granted"]
                   /\ a.ask = "false"
                        => ret.out = [success |-> FALSE, status |-> "denied"]
                   /\ a.ask = "rejects"
                        => ret.out = [success |-> FALSE, status |-> "denied",
                                      error |-> AskError.message]
           /\ a.mic = "throws"
                => /\ ret.out = [success |-> FALSE, status |-> "denied",
                                 error |-> MicProbeError.message]
                   /\ "askForMediaAccess" \notin ret.did

\* The prompt has just rejected for a status that was not determined.
C22_Witness ==
  /\ platform = "macos" /\ ret.op = "requestMicrophonePermission"
  /\ ret.arg = [mic |-> "not-determined", ask |-> "rejects"]
  /\ ~ret.out.success /\ ret.out.status = "denied"

\* C23: on the non-gated platforms the permission operations are static and
\* ask no provider: requestMicrophonePermission returns {success: true,
\* status: 'granted'} without a prompt, openSystemPreferences returns
\* {success: false, error: 'Not supported on this platform'} without the
\* enumeration, for every section and whatever the OS would answer.
C23_NonGatedStatic ==
  platform # "macos"
    => /\ ret.op = "requestMicrophonePermission"
            => /\ ret.out = [success |-> TRUE, status |-> "granted"]
               /\ ret.did = {}
       /\ ret.op = "openSystemPreferences"
            => /\ ret.out = [success |-> FALSE,
                             error |-> <<"Not supported on this platform">>]
               /\ ret.did = {}

\* openSystemPreferences('microphone') has just returned on Linux, where the
\* enumeration would have been rejected.
C23_Witness ==
  /\ platform = "linux" /\ ret.op = "openSystemPreferences"
  /\ ret.arg = [section |-> "microphone", screen |-> "rejects"]
  /\ ~ret.out.success

\* C24: on the gated platform openSystemPreferences('screen-recording')
\* issues the enumeration of the permission check again and returns
\* {success: true} whether it resolves or rejects;
\* openSystemPreferences('microphone') returns {success: true} without it.
C24_OpenPreferencesProbes ==
  (platform = "macos" /\ ret.op = "openSystemPreferences")
    => /\ ret.out = [success |-> TRUE]
       /\ ret.arg.section = "screen-recording"
            => /\ ret.did = {"getSources"}
               /\ ret.did \subseteq PermissionQueries(platform, "granted")
       /\ ret.arg.section = "microphone" => ret.did = {}

\* openSystemPreferences('screen-recording') has just returned after an
\* enumeration that was rejected.
C24_Witness ==
  /\ platform = "macos" /\ ret.op = "openSystemPreferences"
  /\ ret.arg = [section |-> "screen-recording", screen |-> "rejects"]
  /\ ret.out.success
  /\ "getSources" \in ret.did

\* The failure of a captureScreenshot call whose providers did env, NoError
\* when there is none.
ScreenshotFailure(plat, env) ==
  IF plat = "macos"
  THEN IF env.fails = "none" THEN NoError ELSE ScreenshotError(env.fails)
  ELSE IF env.sources.rejects THEN ScreenshotError("getSources")
  ELSE IF env.sources.list = <<>> THEN PlainError(<<"No screen sources available">>)
  ELSE IF Head(env.sources.list) = "none"
  THEN PlainError(<<"No valid screen source/thumbnail available">>)
  ELSE IF Head(env.sources.list) = "broken" THEN ScreenshotError("toJPEG")
  ELSE NoError

\* C25: captureScreenshot never throws: on both strategies a failure of the
\* capture command, the file read, the file delete, the resize/encode or the
\* source enumeration resolves to {success: false, error: <message of the
\* failure>}, and a successful capture resolves to success true with image
\* data, width and height.
C25_ScreenshotNeverThrows ==
  ret.op = "captureScreenshot"
    => LET failure == ScreenshotFailure(platform, ret.arg.env)
       IN  /\ "thrown" \notin DOMAIN ret.out
           /\ IF failure # NoError
              THEN ret.out = [success |-> FALSE, error |-> failure.message]
              ELSE /\ ret.out.success
                   /\ DOMAIN ret.out = {"success", "base64", "width", "height"}

\* A capture has just failed on macOS because the temp file could not be
\* deleted.
C25_Witness ==
  /\ platform = "macos" /\ ret.op = "captureScreenshot"
  /\ ret.arg.env.fails = "unlink"
  /\ ~ret.out.success
  /\ ret.out.error = ScreenshotError("unlink").message

\* C26: on the generic strategy captureScreenshot with an empty list of
\* display sources resolves to exactly {success: false, error: 'No screen
\* sources available'}.
C26_NoSources ==
  (/\ platform # "macos"
   /\ ret.op = "captureScreenshot"
   /\ ~ret.arg.env.sources.rejects
   /\ ret.arg.env.sources.list = <<>>)
    => ret.out = [success |-> FALSE, error |-> <<"No screen sources available">>]

\* A capture has just returned on Windows after an enumeration that
\* resolved with no source.
C26_Witness ==
  /\ platform = "windows" /\ ret.op = "captureScreenshot"
  /\ ret.arg.env.sources = [rejects |-> FALSE, list |-> <<>>]
  /\ ~ret.out.success

\* C27: captureScreenshot is available in Idle and in Capturing and has no
\* effect on capture state: whether it succeeds or fails, and wherever in a
\* session it comes, isCapturing, the chunk list, the subprocess handle and
\* the config are unchanged by it, and it returns a result.
C27_ScreenshotFrame ==
  /\ [](ENABLED CaptureScreenshotCall)
  /\ [][CaptureScreenshotCall
          => /\ UNCHANGED <<isCapturing, audioChunks, systemAudioProc, config>>
             /\ UNCHANGED <<procs, call>>
             /\ ret'.op = "captureScreenshot"
             /\ "success" \in DOMAIN ret'.out]_vars

\* A capture has just failed during a session that holds a chunk and a
\* running subprocess.
C27_Witness ==
  /\ ret.op = "captureScreenshot" /\ ~ret.out.success
  /\ isCapturing
  /\ Len(audioChunks) > 0
  /\ systemAudioProc # 0 /\ procs[systemAudioProc].state = "alive"

C29_ProbesBounded ==
  \A c \in Callers : (call[c].at = "perm") ~> (call[c].at # "perm")

\* The bytes of the buffers of sizes, together.
RECURSIVE TotalOf(_)
TotalOf(sizes) ==
  IF sizes = <<>> THEN 0 ELSE Head(sizes) + TotalOf(Tail(sizes))

\* C30: chunker byte conservation: within one session, after every data
\* event the accumulator holds fewer than chunkSizeBytes bytes, the windows
\* sliced so far, in order, followed by the accumulator are all the bytes
\* received so far, and the number of chunks emitted is
\* floor(total bytes received / chunkSizeBytes), however the bytes are split
\* across data events.
C30_ByteConservation ==
  ret.op = "feed"
    => LET cl == Closure(config)
           total == TotalOf(ret.arg)
           windows == ret.out.windows
           audioBuffer == ret.out.audioBuffer
       IN  /\ audioBuffer.len * Scale < cl.CHUNK_SIZE
           /\ \A i \in 1..Len(windows) :
                windows[i].from = IF i = 1 THEN 0
                                  ELSE windows[i - 1].from + windows[i - 1].len
           /\ audioBuffer.from = IF windows = <<>> THEN 0
                                 ELSE windows[Len(windows)].from + windows[Len(windows)].len
           /\ audioBuffer.from + audioBuffer.len = total
           /\ Len(windows) = (total * Scale) \div cl.CHUNK_SIZE

\* C31: every chunk returned by stopAudioCapture has source 'system', the
\* fixed mimeType 'audio/pcm;rate=24000', and the duration (chunkDuration *
\* 1000 ms) and sampleRate of the config in force at the start of the
\* session the stop ends; the chunks come in the order they were emitted,
\* which is the order of their timestamps.
C31_ReturnedChunkMetadata ==
  (ret.op = "stop" /\ ret.hasChunks /\ ret.killed # 0)
    => \A i \in 1..Len(ret.chunks) :
         LET ch == ret.chunks[i]
             cfg == procs[ret.killed].startConfig
         IN  /\ ch.source = "system"
             /\ ch.mimeType = "audio/pcm;rate=24000"
             /\ ch.duration = cfg.chunkDuration
             /\ ch.sampleRate = cfg.sampleRate

\* C36: sessions do not leak chunks into each other: every chunk a
\* stopAudioCapture returns was built from bytes written by the subprocess
\* that the matching startAudioCapture spawned; data an earlier session's
\* subprocess delivers after that session was stopped never shows up in the
\* result of a later session.
C36_NoChunkLeak ==
  (ret.op = "stop" /\ ret.hasChunks /\ ret.killed # 0)
    => \A i \in 1..Len(ret.chunks) : ret.chunks[i].src = ret.killed

\* The collaborators a start on macOS has used when it returns, by how far
\* it got: the no-op, the permission check, then the straggler kill and the
\* binary check, the spawn, the registration of the handlers.
StartSteps ==
  {{},
   {"permissions"},
   {"permissions", "pkill", "existsSync"},
   {"permissions", "pkill", "existsSync", "spawn"},
   {"permissions", "pkill", "existsSync", "spawn", "handlers"}}

\* C32: on the process-supervised platform a start proceeds in a fixed
\* order: permission check, straggler kill, binary check, spawn, pid check,
\* registration of the handlers.  spawn is never invoked when the permission
\* check reports needsSetup, when the binary is absent, or before the
\* straggler kill has resolved, and a spawn that yields no pid makes the
\* start reject.
C32_StartOrder ==
  /\ [](/\ (platform = "macos" /\ ret.op = "start")
             => /\ ret.did \in StartSteps
                /\ ret.err.name = "PermissionError" => ret.did = {"permissions"}
                /\ ret.path # "none" => "spawn" \notin ret.did
                /\ (ret.ok /\ ~ret.noop) => "handlers" \in ret.did
                /\ ("spawn" \in ret.did /\ "handlers" \notin ret.did) => ~ret.ok
        /\ \A p \in Pids : procs[p].handlers <=> procs[p].state = "alive"
        /\ platform # "macos" => Spawned = {})
  /\ [][\A p \in Pids :
          (procs[p].state = "unborn" /\ procs'[p].state # "unborn")
            => /\ \E c \in Callers :
                    /\ call[c].at = "kill" /\ call[c].mic # "throws"
                    /\ call'[c].at = "idle"
               /\ ret'.op = "start"
               /\ {"permissions", "pkill", "existsSync", "spawn"} \subseteq ret'.did
               /\ procs'[p].state = "nopid"
                    => /\ ~ret'.ok
                       /\ ret'.err = SystemAudioError(<<"Failed to start SystemAudioDump">>,
                                                       platform)
                       /\ ~isCapturing']_vars

\* A start has just been rejected because the spawn gave no pid.
C32_Witness ==
  /\ ret.op = "start" /\ ~ret.ok
  /\ "spawn" \in ret.did /\ "handlers" \notin ret.did
  /\ \E p \in Pids : procs[p].state = "nopid"
  /\ ret.err.name = "SystemAudioError"

\* C33: on the delegated platforms (windows, linux) a start from Idle is a
\* state transition only: no straggler kill, binary check or spawn is done
\* and the subprocess handle stays null through any sequence of start and
\* stop calls; the chunk list stays empty, so a stop from Capturing returns
\* success with an empty chunk sequence and goes back to Idle.
C33_DelegatedTransitionOnly ==
  platform # "macos"
    => /\ systemAudioProc = 0
       /\ Spawned = {}
       /\ InFlight = {}
       /\ audioChunks = <<>>
       /\ ret.op = "start"
            => /\ ret.ok
               /\ ret.did \subseteq {"permissions"}
               /\ isCapturing
       /\ ret.op = "stop"
            => /\ ret.ok /\ ret.chunks = <<>> /\ ret.killed = 0
               /\ ~isCapturing

\* A stop from Capturing has just returned on Linux.
C33_Witness ==
  /\ platform = "linux"
  /\ ret.op = "stop" /\ ret.ok /\ ret.hasChunks /\ ret.chunks = <<>>
  /\ ~isCapturing /\ systemAudioProc = 0

\* A subprocess of a session that was started successfully has exited
\* without having been signalled, the handle is null and no stop has been
\* called since: Capturing with no subprocess.
ExitedWhileCapturing ==
  /\ platform = "macos"
  /\ isCapturing /\ startedOk
  /\ systemAudioProc = 0
  /\ \E p \in Pids : procs[p].state = "gone" /\ ~procs[p].signalled

\* C34: there is no restart. Once the subprocess has exited on its own while
\* Capturing (handle null), the orchestrator stays Capturing; until a stop
\* is called every start is a no-op returning success and no new subprocess
\* is spawned.
C34_NoRestart ==
  [][ExitedWhileCapturing
       => /\ Spawned' = Spawned
          /\ StopCall \/ isCapturing'
          /\ \A c \in Callers :
               StartCall(c) => /\ ret'.ok /\ ret'.noop
                               /\ UNCHANGED <<service, procs, call>>]_vars

\* The subprocesses that run and have been sent no signal.
Unsignalled == {p \in Pids : procs[p].state = "alive" /\ ~procs[p].signalled}

\* C35: no orphaned subprocess. Whenever isCapturing is false and no start
\* is in flight, the handle is null and every subprocess this service has
\* spawned has exited or has been sent a signal; this includes a stop called
\* while a start is suspended between setting isCapturing = true and
\* spawning the subprocess.
C35_NoOrphan ==
  (~isCapturing /\ InFlight = {})
    => /\ systemAudioProc = 0
       /\ Unsignalled = {}

\* C37: after a start that rejects because the spawned process has no pid,
\* the supervisor is back in NotStarted: the stored handle is null, no
\* reference to the failed process is kept, and no later stop or start calls
\* kill() on the failed process.
C37_FailedSpawnForgotten ==
  /\ (/\ ret.op = "start" /\ ~ret.ok
      /\ ret.err = SystemAudioError(<<"Failed to start SystemAudioDump">>, platform))
       => systemAudioProc = 0
  /\ \A p \in Pids :
       procs[p].state = "nopid" => /\ systemAudioProc # p
                                   /\ procs[p].kills = 0

\* ------------------------------------------------------ the permission gate
\* One client that awaits each start and stop, the microphone query of a
\* start answering with any status or throwing, and checkSystemPermissions
\* called directly at any time.
GateNext ==
  \/ \E c \in Callers : InFlight = {} /\ StartAudioCapture(c, MicOutcomes)
  \/ \E c \in Callers : PermResolve(c)
  \/ \E c \in Callers : KillResolve(c)
  \/ InFlight = {} /\ StopCall
  \/ \E p \in Pids : OnProcExit(p)
  \/ CheckPermissionsCall

SpecGate == Init /\ [][GateNext]_vars

\* C38: on macOS needsSetup is true exactly when the screen probe failed or
\* the microphone status query threw; a microphone status of denied,
\* restricted or not-determined alone leaves needsSetup false. A start from
\* Idle whose microphone query answered with any status therefore either
\* goes on to the straggler kill and the spawn with isCapturing set, or
\* rejects with PermissionError, and a start rejects with PermissionError
\* only after a failed probe.
C38_GateIgnoresMicrophoneStatus ==
  /\ [](/\ (platform = "macos" /\ ret.op = "checkSystemPermissions")
              => /\ ret.out.needsSetup
                      <=> (ret.arg.mic = "throws" \/ ret.arg.screen = "rejects")
                 /\ ret.arg.mic \in MicStatuses
                      => /\ ret.out.microphone = ret.arg.mic
                         /\ ret.arg.screen = "resolves" => ~ret.out.needsSetup
         /\ \A c \in Callers : call[c].at = "kill" => call[c].mic \in MicStatuses)
  /\ [][\A c \in Callers :
          (platform = "macos" /\ call[c].at = "perm" /\ call'[c].at # "perm")
            => \/ /\ call'[c].at = "kill"
                  /\ isCapturing' /\ audioChunks' = <<>>
               \/ /\ call'[c].at = "idle"
                  /\ ret'.op = "start" /\ ~ret'.ok
                  /\ ret'.err = PermissionError(NeedsSetupMessage, platform)
                  /\ ret'.did = {"permissions"}]_vars

\* A start whose microphone status was not-determined has passed the gate
\* and waits for the straggler kill.
C38_Witness ==
  \E c \in Callers :
    /\ platform = "macos"
    /\ call[c].at = "kill" /\ call[c].mic = "not-determined"
    /\ isCapturing

\* ------------------------------------------------- the range of the downmix
\* Samples at and next to the ends of the signed 16-bit range, around zero
\* and in the middle of each half.
EdgeSamples == {-32768, -32767, -16384, -1, 0, 1, 16383, 32766, 32767}

\* The buffers of one stereo frame of edge samples.
EdgeBuffers == {StereoBytes(<<<<l, r>>>>) : l \in EdgeSamples, r \in EdgeSamples}

\* convertStereoToMono called on a frame of edge samples.
DownmixRangeNext == \E buffer \in EdgeBuffers : ConvertCall(buffer)

SpecDownmixRange == Init /\ [][DownmixRangeNext]_vars

Min2(a, b) == IF a <= b THEN a ELSE b
Max2(a, b) == IF a >= b THEN a ELSE b

\* C39: the stereo downmix never overflows or wraps. For every pair of
\* signed 16-bit samples, the ends -32768 and 32767 included, the mono sample
\* stored is the rounded average itself, lies in [-32768, 32767] and lies
\* between the smaller and the larger of the two samples.
C39_DownmixInRange ==
  ret.op = "convertStereoToMono" =>
    \A i \in 0..((Len(ret.arg) \div 4) - 1) :
      LET left == ReadInt16LE(ret.arg, 4 * i)
          right == ReadInt16LE(ret.arg, 4 * i + 2)
          mono == ReadInt16LE(ret.out, 2 * i)
      IN  /\ mono \in -32768..32767
          /\ Min2(left, right) <= mono /\ mono <= Max2(left, right)
          /\ 2 * mono - (left + right) \in {0, 1}

\* Two samples at the upper end have been averaged to the upper end.
C39_Witness ==
  /\ ret.op = "convertStereoToMono"
  /\ ret.arg = StereoBytes(<<<<32767, 32767>>>>)
  /\ ret.out = <<255, 127>>

====
